---- MODULE Spec2Model ----
(***************************************************************************)
(* The nova-rs version updater: the launcher update.py and the command     *)
(* processor tools/update/main.py.                                         *)
(*                                                                         *)
(* A text (an argument, the content of a file) is a sequence of            *)
(* one-character strings.  The content of a file is the text f.read()      *)
(* returns.  No text of the model holds a backslash, so the replacement    *)
(* handed to re.sub holds no escape and stands for itself.                 *)
(***************************************************************************)
EXTENDS Integers, Sequences, FiniteSets, TLC

VARIABLES
    pc,            \* where the process is: launcher, sentinel, main, dispatch, finish, exited
    version_info,  \* sys.version_info of the runtime
    nova_root,     \* os.path.exists(".nova-root")
    argv,          \* sys.argv[1:], the command word and the texts after it
    parsed,        \* the namespace parse_args returned
    fs,            \* the files of the working directory: [exists, text] per name
    fs0,           \* fs when the current run started
    idx,           \* position in toolchain_files of the file the loop is at (1-based)
    opened,        \* the files this run opened for writing, in order
    stdout,        \* what this run printed to sys.stdout
    stderr,        \* what this run printed to sys.stderr
    exit_code,     \* <<status>> once the process has ended, <<>> while it runs
    run            \* which invocation of the tool this is

vars == <<pc, version_info, nova_root, argv, parsed, fs, fs0, idx, opened,
          stdout, stderr, exit_code, run>>

-----------------------------------------------------------------------------
(* Bounds of the model *)

\* the most pieces a file's initial content is put together from
MaxPieces == 2

\* the most invocations of the tool in succession on the same working directory
MaxRuns == 2

-----------------------------------------------------------------------------
(* Texts *)

Chars(str) == [i \in 1..Len(str) |-> SubSeq(str, i, i)]

\* the texts of parts, one after the other
Concat(parts) ==
    LET upto[k \in 0..Len(parts)] == IF k = 0 THEN <<>> ELSE upto[k - 1] \o parts[k]
    IN  upto[Len(parts)]

\* \d
Digit == {"0", "1", "2", "3", "4", "5", "6", "7", "8", "9"}

Letter ==
    {Chars("abcdefghijklmnopqrstuvwxyzABCDEFGHIJKLMNOPQRSTUVWXYZ")[i] : i \in 1..52}

\* \w
WordChar == Letter \cup Digit \cup {"_"}

\* \s
Space == {" ", "\t", "\n", "\r", "\f"}

\* s holds lit at position p
HasAt(s, p, lit) ==
    /\ p + Len(lit) - 1 <= Len(s)
    /\ SubSeq(s, p, p + Len(lit) - 1) = lit

\* s holds n digits at position p: \d{n}
DigitsAt(s, p, n) ==
    /\ p + n - 1 <= Len(s)
    /\ \A i \in p..(p + n - 1) : s[i] \in Digit

\* the position after the longest run of characters of class at position p
SkipRun(s, p, class) ==
    IF p > Len(s) THEN p
    ELSE CHOOSE q \in p..(Len(s) + 1) :
            /\ \A i \in p..(q - 1) : s[i] \in class
            /\ (q = Len(s) + 1 \/ s[q] \notin class)

\* the position after the longest run of characters outside class at position p
SkipUntil(s, p, class) ==
    IF p > Len(s) THEN p
    ELSE CHOOSE q \in p..(Len(s) + 1) :
            /\ \A i \in p..(q - 1) : s[i] \notin class
            /\ (q = Len(s) + 1 \/ s[q] \in class)

\* `.` without DOTALL: any character but a newline
AnyAt(s, p) == p <= Len(s) /\ s[p] # "\n"

\* ^ under re.MULTILINE
AtLineStart(s, p) == p = 1 \/ (p - 1 <= Len(s) /\ s[p - 1] = "\n")

\* $ under re.MULTILINE
AtLineEnd(s, p) == p = Len(s) + 1 \/ (p <= Len(s) /\ s[p] = "\n")

-----------------------------------------------------------------------------
(* Config: the patterns and the files *)

toolchain_version_regex == "toolchain_version_regex"
version_cargo_regex == "version_cargo_regex"

toolchain_files == <<".appveyor.yml", ".travis.yml", "README.md", "rust-toolchain">>

CargoToml == "Cargo.toml"

Files == {toolchain_files[i] : i \in 1..Len(toolchain_files)} \cup {CargoToml}

\* No match: a match of these patterns is never empty, so it never ends where it starts
NoMatch == 0

\* the largest number of a set of naturals, NoMatch when it holds none above it
Largest(ends) == CHOOSE x \in ends \cup {NoMatch} : \A y \in ends \cup {NoMatch} : y <= x

\* the channels of toolchain_version_regex, in the order it tries them
Channels == <<Chars("stable"), Chars("beta"), Chars("nightly")>>

\* (stable|beta|nightly) at position p: how long the channel is, 0 when none is there
ChannelLen(s, p) ==
    IF HasAt(s, p, Channels[1]) THEN Len(Channels[1])
    ELSE IF HasAt(s, p, Channels[2]) THEN Len(Channels[2])
    ELSE IF HasAt(s, p, Channels[3]) THEN Len(Channels[3])
    ELSE 0

\* -\d{4}-\d{2}-\d{2} at position q: the position after it, or NoMatch
DateEnd(s, q) ==
    IF /\ HasAt(s, q, <<"-">>) /\ DigitsAt(s, q + 1, 4)
       /\ HasAt(s, q + 5, <<"-">>) /\ DigitsAt(s, q + 6, 2)
       /\ HasAt(s, q + 8, <<"-">>) /\ DigitsAt(s, q + 9, 2)
    THEN q + 11
    ELSE NoMatch

ChannelThenDate(s, p, channel) ==
    IF channel > 0 THEN DateEnd(s, p + channel) ELSE NoMatch

\* (stable|beta|nightly)-\d{4}-\d{2}-\d{2} at position p: the position after the
\* match, or NoMatch
ToolchainMatchEnd(s, p) == ChannelThenDate(s, p, ChannelLen(s, p))

\* (\d+).(\d+).(\d from position p: the positions the third group can start at, one
\* for each way to cut the first two groups (a and b digits long; each `.` takes any
\* character but a newline, a digit too)
TripleStarts(s, p) ==
    {p + ab[1] + ab[2] + 2 :
        ab \in {ab \in (1..Len(s)) \X (1..Len(s)) :
                   /\ DigitsAt(s, p, ab[1]) /\ AnyAt(s, p + ab[1])
                   /\ DigitsAt(s, p + ab[1] + 1, ab[2]) /\ AnyAt(s, p + ab[1] + ab[2] + 1)
                   /\ DigitsAt(s, p + ab[1] + ab[2] + 2, 1)}}

\* version_simple_regex.match(s) is not None: (\d+).(\d+).(\d+)(-\w+)? matches at
\* the start of s; the pattern has no end anchor and its last group is optional
VersionSimpleMatches(s) == TripleStarts(s, 1) # {}

\* \s*$ from position lo, the white space running up to hi: \s* is greedy and gives
\* back down to the last position that is an end of line
LineEndWithin(s, lo, hi) == Largest({w \in lo..hi : AtLineEnd(s, w)})

\* "\s*$ at position t
CargoClose(s, t) ==
    IF HasAt(s, t, <<"\"">>)
    THEN LineEndWithin(s, t + 1, SkipRun(s, t + 1, Space))
    ELSE NoMatch

\* the suffix -[^"]+ ran from d up to t, where a quote or the end of the text is
CargoAfterSuffix(s, d, t) == IF t > d + 1 THEN CargoClose(s, t) ELSE NoMatch

\* (-[^"]+)?"\s*$ at position d
CargoSuffix(s, d) ==
    IF HasAt(s, d, <<"-">>)
    THEN CargoAfterSuffix(s, d, SkipUntil(s, d + 1, {"\""}))
    ELSE CargoClose(s, d)

\* (\d+)(-[^"]+)?"\s*$ at position r: the digits run as far as they go, since after
\* them only a '-' or the quote fits
CargoTailEnd(s, r) == CargoSuffix(s, SkipRun(s, r, Digit))

\* (\d+).(\d+).(\d+)(-[^"]+)?"\s*$ at position q.  However the first two groups are
\* cut, a match ends at the same place: the one quote that an end of line follows.
CargoVersionEnd(s, q) == Largest({CargoTailEnd(s, r) : r \in TripleStarts(s, q)})

\* "(\d+).(\d+).(\d+)(-[^"]+)?"\s*$ at position q
CargoOpen(s, q) == IF HasAt(s, q, <<"\"">>) THEN CargoVersionEnd(s, q + 1) ELSE NoMatch

\* =\s*"(\d+).(\d+).(\d+)(-[^"]+)?"\s*$ at position q
CargoEquals(s, q) ==
    IF HasAt(s, q, <<"=">>) THEN CargoOpen(s, SkipRun(s, q + 1, Space)) ELSE NoMatch

\* the literal version_cargo_regex starts with
VersionWord == Chars("version")

\* ^version\s*=\s*"(\d+).(\d+).(\d+)(-[^"]+)?"\s*$ under re.MULTILINE at position
\* p: the position after the match, or NoMatch
CargoMatchEnd(s, p) ==
    IF AtLineStart(s, p) /\ HasAt(s, p, VersionWord)
    THEN CargoEquals(s, SkipRun(s, p + Len(VersionWord), Space))
    ELSE NoMatch

\* pattern.match(s, p - 1) for the two patterns handed to replace_in_file: the
\* position after the match of pattern that starts at position p, or NoMatch
MatchEnd(pattern, s, p) ==
    IF pattern = toolchain_version_regex
    THEN ToolchainMatchEnd(s, p)
    ELSE CargoMatchEnd(s, p)

\* re.sub's scan of s, ends[p] being where the match that starts at p ends: every
\* match, leftmost first and never overlapping, gives way to repl; what lies
\* between the matches is kept
SubScan(ends, repl, s) ==
    LET from[p \in 1..(Len(s) + 1)] ==
            IF p > Len(s) THEN <<>>
            ELSE IF ends[p] = NoMatch THEN <<s[p]>> \o from[p + 1]
            ELSE repl \o from[ends[p]]
    IN  from[1]

\* pattern.sub(repl, s, count=1): the first match alone gives way to repl
Sub_Count1(pattern, repl, s) ==
    LET starts == {p \in 1..Len(s) : MatchEnd(pattern, s, p) # NoMatch}
    IN  IF starts = {} THEN s
        ELSE LET m == CHOOSE x \in starts : \A y \in starts : x <= y
             IN  SubSeq(s, 1, m - 1) \o repl \o SubSeq(s, MatchEnd(pattern, s, m), Len(s))

\* pattern.sub(repl, s)
Sub(pattern, repl, s) ==
    SubScan([p \in 1..Len(s) |-> MatchEnd(pattern, s, p)], repl, s)

-----------------------------------------------------------------------------
(* Utils *)

\* replace_in_file without the exit(1) of its except branch: the missing file is
\* reported and the call comes back
replace_in_file_GoesOn(files, file, pattern, replacement) ==
    IF ~files[file].exists
    THEN [fs |-> files,
          wrote |-> <<>>,
          out |-> <<>>,
          err |-> <<[msg |-> "File not found", file |-> file]>>,
          exit |-> <<>>]
    ELSE [fs |-> [files EXCEPT ![file].text = Sub(pattern, replacement, @)],
          wrote |-> <<file>>,
          out |-> <<>>,
          err |-> <<>>,
          exit |-> <<>>]

\* replace_in_file writing back the text it read in place of the substituted one
replace_in_file_WritesBack(files, file, pattern, replacement) ==
    IF ~files[file].exists
    THEN [fs |-> files,
          wrote |-> <<>>,
          out |-> <<>>,
          err |-> <<[msg |-> "File not found", file |-> file]>>,
          exit |-> <<1>>]
    ELSE [fs |-> files,
          wrote |-> <<file>>,
          out |-> <<>>,
          err |-> <<>>,
          exit |-> <<>>]

\* What one call of replace_in_file does to the files given: a missing file is
\* reported on sys.stderr and ends the process with status 1 before anything is
\* written; a file that is there is read whole, substituted and written back.
replace_in_file(files, file, pattern, replacement) ==
    IF ~files[file].exists
    THEN [fs |-> files,
          wrote |-> <<>>,
          out |-> <<>>,
          err |-> <<[msg |-> "File not found", file |-> file]>>,
          exit |-> <<1>>]
    ELSE [fs |-> [files EXCEPT ![file].text = Sub(pattern, replacement, @)],
          wrote |-> <<file>>,
          out |-> <<>>,
          err |-> <<>>,
          exit |-> <<>>]

\* the print that follows a call of replace_in_file, when the call came back
Then(r, out) == IF r.exit = <<>> THEN [r EXCEPT !.out = out] ELSE r

-----------------------------------------------------------------------------
(* Version *)

\* ok: the version is returned; otherwise argparse.ArgumentTypeError is raised
validate_version(version) ==
    [ok |-> VersionSimpleMatches(version), value |-> version]

VersionLineStart == Chars("version = \"")

\* the replacement string replace_version formats: version = "{}"
VersionLine(new_version) == VersionLineStart \o new_version \o <<"\"">>

replace_version(files, new_version) ==
    Then(replace_in_file(files, CargoToml, version_cargo_regex, VersionLine(new_version)),
         <<[msg |-> "Updated", version |-> new_version],
           [msg |-> "Please run cargo update -p nova-rs to update Cargo.lock"]>>)

-----------------------------------------------------------------------------
(* Rust Toolchain *)

\* ok: the version is returned; otherwise argparse.ArgumentTypeError is raised
validate_toolchain_version(version) ==
    [ok |-> ToolchainMatchEnd(version, 1) # NoMatch, value |-> version]

\* One turn of the loop of replace_toolchain_version, on the file at position i
replace_toolchain_version(files, new_toolchain, i) ==
    Then(replace_in_file(files, toolchain_files[i], toolchain_version_regex, new_toolchain),
         <<[msg |-> "Updated", file |-> toolchain_files[i]]>>)

-----------------------------------------------------------------------------
(* Main *)

commit_warning ==
    [msg |-> "Please commit changes made by this tool in their own commit and PR."]

Commands == {"toolchain", "version"}

NoNamespace == [command |-> "", value |-> <<>>]

UsageError(message) == [error |-> message, ns |-> NoNamespace]

\* the sub-command's one positional argument, converted by its validator
Validated(command, arg) ==
    IF command = "toolchain" THEN validate_toolchain_version(arg) ELSE validate_version(arg)

\* the end of parse_args were the validator's verdict not heeded
Converted_Unchecked(args, v) ==
    IF Len(args) > 2 THEN UsageError("unrecognized arguments")
    ELSE [error |-> "", ns |-> [command |-> args[1], value |-> v.value]]

\* the end of parse_args, v being what the validator made of the argument
Converted(args, v) ==
    IF ~v.ok THEN UsageError("argument: invalid value")
    ELSE IF Len(args) > 2 THEN UsageError("unrecognized arguments")
    ELSE [error |-> "", ns |-> [command |-> args[1], value |-> v.value]]

\* parser.parse_args(): the namespace, or the usage error argparse ends the process
\* with (status 2).  The command is required and is one of the two sub-commands;
\* each takes exactly one positional argument, converted by its validator.
parse_args(args) ==
    IF Len(args) = 0 THEN UsageError("the following arguments are required: command")
    ELSE IF args[1] \notin Commands THEN UsageError("argument command: invalid choice")
    ELSE IF Len(args) = 1 THEN UsageError("the following arguments are required")
    ELSE Converted(args, Validated(args[1], args[2]))

-----------------------------------------------------------------------------
(* Launcher *)

\* tuples compare as in Python: at the first place they differ, the shorter one
\* first when one is the start of the other
TupleLess(a, b) ==
    \/ \E i \in 1..Len(a) :
          /\ i <= Len(b)
          /\ \A j \in 1..(i - 1) : a[j] = b[j]
          /\ a[i] < b[i]
    \/ /\ Len(a) < Len(b)
       /\ \A j \in 1..Len(a) : a[j] = b[j]

\* the guard comparing the major version alone
VersionTooLow_MajorOnly(info) == info[1] < 3

\* sys.version_info < (3, 5, 0)
VersionTooLow(info) == TupleLess(info, <<3, 5, 0>>)

\* the sentinel check were it to end the process when .nova-root is not there
SentinelCheck_Fatal(root_exists) ==
    [out |-> IF root_exists
             THEN <<>>
             ELSE <<[msg |-> "This script must be run inside nova's root directory"],
                    [msg |-> "Cannot find .nova-root"]>>,
     exit |-> IF root_exists THEN <<>> ELSE <<1>>]

\* What the launcher does about .nova-root: it prints, and goes on
SentinelCheck(root_exists) ==
    [out |-> IF root_exists
             THEN <<>>
             ELSE <<[msg |-> "This script must be run inside nova's root directory"],
                    [msg |-> "Cannot find .nova-root"]>>,
     exit |-> <<>>]

-----------------------------------------------------------------------------
(* The inputs of the model *)

\* every text put together from at most n of the pieces
Texts(pieces, n) ==
    UNION {{Concat(sq) : sq \in [1..k -> pieces]} : k \in 0..n}

ToolchainPieces ==
    {Chars("stable-2019-01-01"), Chars("nightly-2019-7-23"), Chars(" ")}

CargoPieces ==
    {Chars("version = \"0.0.0\""), Chars("version=\"1.2.3-rc\" "), Chars("\n"), Chars("[x]")}

ToolchainArgs ==
    {Chars("nightly-2020-06-15"), Chars("beta-2020-06-15x"), Chars("stable-2020-6-15"),
     Chars("abc")}

VersionArgs ==
    {Chars("1.3.0-beta"), Chars("1.3.0"), Chars("12345"), Chars("1.3.0!"), Chars("1.3"),
     Chars("v1.3.0")}

Argvs ==
    {<<>>, <<"toolchain">>, <<"release", Chars("1.3.0")>>}
    \cup {<<"toolchain", t>> : t \in ToolchainArgs}
    \cup {<<"version", v>> : v \in VersionArgs}

Absent == [exists |-> FALSE, text |-> <<>>]

File(text) == [exists |-> TRUE, text |-> text]

DefaultToolchainFile == File(Chars("stable-2019-01-01\n"))

DefaultCargo == File(Chars("version = \"0.0.0\"\n"))

\* the working directories a toolchain run starts in: one file of the list holds
\* any text of the bound, each other one is missing or holds the default
ToolchainDirs ==
    {[f \in Files |->
        IF f = CargoToml THEN DefaultCargo
        ELSE IF f = toolchain_files[k] THEN File(t)
        ELSE IF f \in missing THEN Absent
        ELSE DefaultToolchainFile] :
      <<k, t, missing>> \in (1..Len(toolchain_files))
                            \X Texts(ToolchainPieces, MaxPieces)
                            \X SUBSET (Files \ {CargoToml})}

\* the working directories a version run starts in: Cargo.toml is missing or holds
\* any text of the bound
VersionDirs ==
    {[f \in Files |-> IF f = CargoToml THEN c ELSE DefaultToolchainFile] :
      c \in {Absent} \cup {File(t) : t \in Texts(CargoPieces, MaxPieces)}}

Dirs(args) ==
    IF Len(args) = 2 /\ args[1] = "toolchain" THEN ToolchainDirs
    ELSE IF Len(args) = 2 /\ args[1] = "version" THEN VersionDirs
    ELSE {[f \in Files |-> IF f = CargoToml THEN DefaultCargo ELSE DefaultToolchainFile]}

VersionInfos == {<<3, 4, 10>>, <<3, 5, 0>>}

-----------------------------------------------------------------------------
(* The process *)

Init ==
    /\ pc = "launcher"
    /\ version_info \in VersionInfos
    /\ nova_root \in BOOLEAN
    /\ argv \in Argvs
    /\ parsed = NoNamespace
    /\ fs \in Dirs(argv)
    /\ fs0 = fs
    /\ idx = 1
    /\ opened = <<>>
    /\ stdout = <<>>
    /\ stderr = <<>>
    /\ exit_code = <<>>
    /\ run = 1

\* update.py:15-17
LauncherVersionGuard ==
    /\ pc = "launcher"
    /\ IF VersionTooLow(version_info)
       THEN /\ stdout' = Append(stdout, [msg |-> "requires python > 3.5"])
            /\ exit_code' = <<1>>
            /\ pc' = "exited"
       ELSE /\ pc' = "sentinel"
            /\ UNCHANGED <<stdout, exit_code>>
    /\ UNCHANGED <<version_info, nova_root, argv, parsed, fs, fs0, idx, opened, stderr, run>>

\* update.py:19-25
LauncherSentinel ==
    /\ pc = "sentinel"
    /\ \E r \in {SentinelCheck(nova_root)} :
           /\ stdout' = stdout \o r.out
           /\ exit_code' = r.exit
           /\ pc' = IF r.exit = <<>> THEN "main" ELSE "exited"
    /\ UNCHANGED <<version_info, nova_root, argv, parsed, fs, fs0, idx, opened, stderr, run>>

\* main.py:142-165
ParseArguments ==
    /\ pc = "main"
    /\ \E r \in {parse_args(argv)} :
           IF r.error # ""
           THEN /\ stderr' = Append(stderr, [msg |-> "usage", error |-> r.error])
                /\ exit_code' = <<2>>
                /\ pc' = "exited"
                /\ UNCHANGED parsed
           ELSE /\ parsed' = r.ns
                /\ pc' = "dispatch"
                /\ UNCHANGED <<stderr, exit_code>>
    /\ UNCHANGED <<version_info, nova_root, argv, fs, fs0, idx, opened, stdout, run>>

\* main.py:167-168
ReplaceVersion ==
    /\ pc = "dispatch"
    /\ parsed.command = "version"
    /\ \E r \in {replace_version(fs, parsed.value)} :
           /\ fs' = r.fs
           /\ opened' = opened \o r.wrote
           /\ stdout' = stdout \o r.out
           /\ stderr' = stderr \o r.err
           /\ exit_code' = r.exit
           /\ pc' = IF r.exit = <<>> THEN "finish" ELSE "exited"
    /\ UNCHANGED <<version_info, nova_root, argv, parsed, fs0, idx, run>>

\* main.py:169-170, one turn of the loop at main.py:127-129
ReplaceToolchainFile ==
    /\ pc = "dispatch"
    /\ parsed.command = "toolchain"
    /\ idx <= Len(toolchain_files)
    /\ \E r \in {replace_toolchain_version(fs, parsed.value, idx)} :
           /\ fs' = r.fs
           /\ opened' = opened \o r.wrote
           /\ stdout' = stdout \o r.out
           /\ stderr' = stderr \o r.err
           /\ exit_code' = r.exit
           /\ idx' = IF r.exit = <<>> THEN idx + 1 ELSE idx
           /\ pc' = IF r.exit # <<>> THEN "exited"
                    ELSE IF idx = Len(toolchain_files) THEN "finish"
                    ELSE "dispatch"
    /\ UNCHANGED <<version_info, nova_root, argv, parsed, fs0, run>>

\* main.py:172, and the interpreter ending with status 0
Finish ==
    /\ pc = "finish"
    /\ stdout' = Append(stdout, commit_warning)
    /\ exit_code' = <<0>>
    /\ pc' = "exited"
    /\ UNCHANGED <<version_info, nova_root, argv, parsed, fs, fs0, idx, opened, stderr, run>>

\* the operator runs the tool again, with the same arguments, on the files as the
\* run before left them
Rerun ==
    /\ pc = "exited"
    /\ run < MaxRuns
    /\ run' = run + 1
    /\ pc' = "launcher"
    /\ parsed' = NoNamespace
    /\ fs0' = fs
    /\ idx' = 1
    /\ opened' = <<>>
    /\ stdout' = <<>>
    /\ stderr' = <<>>
    /\ exit_code' = <<>>
    /\ UNCHANGED <<version_info, nova_root, argv, fs>>

Next ==
    \/ LauncherVersionGuard
    \/ LauncherSentinel
    \/ ParseArguments
    \/ ReplaceVersion
    \/ ReplaceToolchainFile
    \/ Finish
    \/ Rerun

Spec == Init /\ [][Next]_vars

-----------------------------------------------------------------------------
(* What the claims speak of, stated apart from the code above *)

Range(seq) == {seq[i] : i \in 1..Len(seq)}

AllIn(s, lo, hi, class) == lo <= hi /\ hi <= Len(s) /\ \A i \in lo..hi : s[i] \in class

\* the runtime is 3.5 or later
RuntimeSufficient ==
    version_info[1] > 3 \/ (version_info[1] = 3 /\ version_info[2] >= 5)

\* the run is that of a sub-command with its one argument
IsCommand(command) == Len(argv) = 2 /\ argv[1] = command

\* the files a sub-command rewrites, in the order it takes them
Targets(command) == IF command = "version" THEN <<CargoToml>> ELSE toolchain_files

\* a VersionString: <digits>.<digits>.<digits> with literal dots, then nothing or
\* '-' and a word, and nothing else
IsVersionString(s) ==
    \E a \in 1..Len(s), b \in 1..Len(s), c \in 1..Len(s) :
        /\ AllIn(s, 1, a, Digit)
        /\ HasAt(s, a + 1, <<".">>)
        /\ AllIn(s, a + 2, a + b + 1, Digit)
        /\ HasAt(s, a + b + 2, <<".">>)
        /\ AllIn(s, a + b + 3, a + b + c + 2, Digit)
        /\ \/ Len(s) = a + b + c + 2
           \/ /\ HasAt(s, a + b + c + 3, <<"-">>)
              /\ AllIn(s, a + b + c + 4, Len(s), WordChar)

ChannelNames == {Chars("stable"), Chars("beta"), Chars("nightly")}

\* a ToolchainIdentifier: a channel, then -YYYY-MM-DD, and nothing else
IsToolchainIdentifier(s) ==
    \E channel \in ChannelNames :
        /\ Len(s) = Len(channel) + 11
        /\ SubSeq(s, 1, Len(channel)) = channel
        /\ \A i \in 1..11 :
              IF i \in {1, 6, 9}
              THEN s[Len(channel) + i] = "-"
              ELSE s[Len(channel) + i] \in Digit

\* the pattern and the replacement a sub-command hands to replace_in_file
PatternOf(command) ==
    IF command = "version" THEN version_cargo_regex ELSE toolchain_version_regex

VersionEquals == Chars("version = ")

\* the line version = "V"
NewVersionLine(value) == VersionEquals \o <<"\"">> \o value \o <<"\"">>

ReplacementOf(command, value) ==
    IF command = "version" THEN NewVersionLine(value) ELSE value

\* where the match of pattern that starts at each position of s ends, as a table
\* (merging with the empty function leaves it as it is)
MatchEnds(pattern, s) == [p \in 1..Len(s) |-> MatchEnd(pattern, s, p)] @@ <<>>

\* the positions of s a match of pattern starts at
MatchStarts(pattern, s) == {p \in 1..Len(s) : MatchEnd(pattern, s, p) # NoMatch}

\* s with every match (ends tells where each ends) replaced by repl and every
\* character outside a match kept
ReplacedAt(ends, repl, s) ==
    Concat([p \in 1..Len(s) |->
              IF ends[p] # NoMatch THEN repl
              ELSE IF \E m \in 1..(p - 1) : ends[m] > p THEN <<>>
              ELSE <<s[p]>>])

EveryMatchReplaced(pattern, repl, s) == ReplacedAt(MatchEnds(pattern, s), repl, s)

\* s with its first match alone replaced by repl
FirstReplacedAt(starts, ends, repl, s) ==
    IF starts = {} THEN s
    ELSE LET m == CHOOSE x \in starts : \A y \in starts : x <= y
         IN  SubSeq(s, 1, m - 1) \o repl \o SubSeq(s, ends[m], Len(s))

FirstMatchReplaced(pattern, repl, s) ==
    FirstReplacedAt(MatchStarts(pattern, s), MatchEnds(pattern, s), repl, s)

\* how far the text before each position has grown (at Len(s) + 1: the whole text)
\* once every match that starts before it has given way to repl
GrowthAt(ends, repl, s) ==
    LET grown[q \in 0..Len(s)] ==
            IF q = 0 THEN 0
            ELSE grown[q - 1] + (IF ends[q] # NoMatch THEN Len(repl) - (ends[q] - q) ELSE 0)
    IN  [p \in 1..(Len(s) + 1) |-> grown[p - 1]]

\* every match of s has given way to repl in t: where each match was, moved by what
\* the text before it has grown, repl stands, and t is as long as that makes it
EachReplacedIn(ends, growth, repl, s, t) ==
    /\ \A m \in 1..Len(s) : ends[m] # NoMatch => HasAt(t, m + growth[m], repl)
    /\ Len(t) = Len(s) + growth[Len(s) + 1]

\* the lines of a text, as s.split("\n") gives them
SplitLines(s) ==
    LET breaks == {0, Len(s) + 1} \cup {p \in 1..Len(s) : s[p] = "\n"}
        upto[k \in 0..Cardinality(breaks)] ==
            IF k = 0 THEN <<>>
            ELSE LET b == CHOOSE x \in breaks : Cardinality({y \in breaks : y < x}) = k - 1
                     e == CHOOSE x \in breaks : Cardinality({y \in breaks : y < x}) = k
                 IN  Append(upto[k - 1], SubSeq(s, b + 1, e - 1))
    IN  upto[Cardinality(breaks) - 1]

\* a line that is a package version line and nothing else
IsVersionLine(line) == CargoMatchEnd(line, 1) = Len(line) + 1

\* the position in toolchain_files of the first file missing when the run started
FirstMissing(k) ==
    /\ ~fs0[toolchain_files[k]].exists
    /\ \A j \in 1..(k - 1) : fs0[toolchain_files[j]].exists

-----------------------------------------------------------------------------
(* The claims *)

\* C1: in the toolchain command the files of the list are taken in their order, and
\* when the file at position k is the first one missing the run ends there with a
\* non-zero status: every file before k has been rewritten with the substitution
\* applied, every file from k on is as it was (never opened), nothing is rolled back,
\* and the missing file is named on sys.stderr.
C1_MissingFileStopsTheRun ==
    \A k \in 1..Len(toolchain_files) :
        (/\ pc = "exited" /\ RuntimeSufficient
         /\ IsCommand("toolchain") /\ parsed.command = "toolchain"
         /\ FirstMissing(k))
        => /\ exit_code # <<>> /\ exit_code # <<0>>
           /\ opened = SubSeq(toolchain_files, 1, k - 1)
           /\ \A j \in 1..(k - 1) :
                 fs[toolchain_files[j]] =
                     File(EveryMatchReplaced(toolchain_version_regex, argv[2],
                                             fs0[toolchain_files[j]].text))
           /\ \A j \in k..Len(toolchain_files) : fs[toolchain_files[j]] = fs0[toolchain_files[j]]
           /\ fs[CargoToml] = fs0[CargoToml]
           /\ stderr = <<[msg |-> "File not found", file |-> toolchain_files[k]]>>

\* C1's case: the run has ended at a missing file in the middle of the list, having
\* changed a file before it, with files after it in place
C1_Witness ==
    /\ pc = "exited" /\ parsed.command = "toolchain"
    /\ FirstMissing(2)
    /\ fs0[toolchain_files[3]].exists /\ fs0[toolchain_files[4]].exists
    /\ fs[toolchain_files[1]] # fs0[toolchain_files[1]]

\* C2: validation is over before any file is opened for writing: a file is written
\* only in a run whose argument its validator accepted, and a run whose argument the
\* validator rejects ends with a usage error having changed no file.
C2_ValidationBeforeAnyWrite ==
    /\ (opened # <<>> \/ fs # fs0)
       => \E command \in Commands :
             /\ IsCommand(command)
             /\ IF command = "version"
                THEN validate_version(argv[2]).ok
                ELSE validate_toolchain_version(argv[2]).ok
    /\ \A command \in Commands :
          (/\ pc = "exited" /\ RuntimeSufficient /\ IsCommand(command)
           /\ ~(IF command = "version"
                THEN validate_version(argv[2]).ok
                ELSE validate_toolchain_version(argv[2]).ok))
          => /\ exit_code = <<2>>
             /\ \E i \in 1..Len(stderr) : stderr[i].msg = "usage"
             /\ opened = <<>>
             /\ fs = fs0

\* C2's case: a toolchain run whose argument was rejected has ended, over files
\* that hold text the command would have replaced
C2_Witness ==
    /\ pc = "exited" /\ RuntimeSufficient /\ IsCommand("toolchain")
    /\ ~validate_toolchain_version(argv[2]).ok
    /\ \A j \in 1..Len(toolchain_files) :
          /\ fs[toolchain_files[j]].exists
          /\ MatchStarts(toolchain_version_regex, fs[toolchain_files[j]].text) # {}

\* every file the sub-command rewrites has been written
FullSuccess ==
    /\ parsed.command \in Commands
    /\ opened = Targets(parsed.command)

\* the run is one whose argument the argument parser rejects
Malformed == RuntimeSufficient /\ parse_args(argv).error # ""

\* the run is one that comes to a target file that is missing
MissingTarget ==
    /\ RuntimeSufficient /\ parse_args(argv).error = ""
    /\ \E j \in 1..Len(Targets(argv[1])) : ~fs0[Targets(argv[1])[j]].exists

\* C3 as the spec states it: the exit code is 0 exactly when the run fully succeeds,
\* and 1 when the runtime-version guard fails, when the argument is malformed and
\* when a target file is missing.
C3_AsStated ==
    pc = "exited"
    => /\ exit_code = <<0>> <=> FullSuccess
       /\ ~RuntimeSufficient => exit_code = <<1>>
       /\ Malformed => exit_code = <<1>>
       /\ MissingTarget => exit_code = <<1>>

\* C3, amended: the exit code is 0 exactly when the run fully succeeds; it is 1 when
\* the runtime-version guard fails and when a target file is missing, and 2 when
\* the argument is malformed (the usage error of the argument parser).
C3_ExitCodes ==
    pc = "exited"
    => /\ exit_code = <<0>> <=> FullSuccess
       /\ ~RuntimeSufficient => exit_code = <<1>>
       /\ Malformed => exit_code = <<2>>
       /\ MissingTarget => exit_code = <<1>>

\* C3's case: a run with a malformed argument has ended
C3_Witness == pc = "exited" /\ Malformed /\ IsCommand("toolchain") /\ exit_code = <<2>>

\* C4: validate_version accepts a string exactly when it is a VersionString.
C4_ValidateVersionExact ==
    (IsCommand("version") /\ pc \in {"dispatch", "finish", "exited"} /\ RuntimeSufficient)
    => ((parsed.command = "version" /\ parsed.value = argv[2]) <=> IsVersionString(argv[2]))

\* C5: validate_toolchain_version accepts a string exactly when the whole of it is
\* a ToolchainIdentifier.
C5_ValidateToolchainExact ==
    (IsCommand("toolchain") /\ pc \in {"dispatch", "finish", "exited"} /\ RuntimeSufficient)
    => ((parsed.command = "toolchain" /\ parsed.value = argv[2])
        <=> IsToolchainIdentifier(argv[2]))

\* C6: after `version V` on a manifest that holds a package version line, the
\* manifest holds the line version = "V" in its place and every other line is as it
\* was: no line is removed or merged and no line terminator is lost.
C6_OnlyTheVersionLineChanges ==
    (/\ pc = "exited" /\ exit_code = <<0>> /\ parsed.command = "version"
     /\ \E i \in 1..Len(SplitLines(fs0[CargoToml].text)) :
           IsVersionLine(SplitLines(fs0[CargoToml].text)[i]))
    => /\ Len(SplitLines(fs[CargoToml].text)) = Len(SplitLines(fs0[CargoToml].text))
       /\ \A i \in 1..Len(SplitLines(fs0[CargoToml].text)) :
             SplitLines(fs[CargoToml].text)[i] =
                 IF IsVersionLine(SplitLines(fs0[CargoToml].text)[i])
                 THEN NewVersionLine(parsed.value)
                 ELSE SplitLines(fs0[CargoToml].text)[i]

\* C7: the toolchain command is idempotent: run a second time with the same
\* accepted argument, it leaves every file as the first run left it.
C7_ToolchainIdempotent ==
    (/\ run > 1 /\ pc = "exited" /\ exit_code = <<0>> /\ parsed.command = "toolchain")
    => fs = fs0

\* C8: the sentinel check is advisory: with a sufficient runtime and no .nova-root
\* the launcher prints its diagnostic and hands over to the command processor, and
\* the run ends as the arguments and the target files alone decide: a usage error
\* for a rejected argument, status 1 at a missing target, and otherwise every
\* target rewritten and status 0.
C8_SentinelIsAdvisory ==
    (RuntimeSufficient /\ ~nova_root)
    => /\ pc \notin {"launcher", "sentinel"}
          => /\ Len(stdout) >= 2
             /\ stdout[1].msg = "This script must be run inside nova's root directory"
             /\ stdout[2].msg = "Cannot find .nova-root"
       /\ pc = "sentinel" => exit_code = <<>>
       /\ pc = "exited"
          => IF Malformed THEN exit_code = <<2>>
             ELSE IF MissingTarget THEN exit_code = <<1>>
             ELSE exit_code = <<0>> /\ opened = Targets(parsed.command)

\* C8's case: a run without .nova-root has rewritten a file and ended with status 0
C8_Witness ==
    /\ RuntimeSufficient /\ ~nova_root
    /\ pc = "exited" /\ exit_code = <<0>>
    /\ fs # fs0

\* C9: replace_in_file replaces all the matches of the pattern, not the first
\* alone: a file that has been written holds its former text with every match
\* replaced by the replacement and all the text outside the matches as it was (the
\* former text itself when nothing matched), and it is reported as updated; a file
\* that has not been written is as it was.
C9_ReplacesAllMatches ==
    \A f \in Files :
        IF f \in Range(opened)
        THEN /\ fs[f] = File(EveryMatchReplaced(PatternOf(parsed.command),
                                                ReplacementOf(parsed.command, parsed.value),
                                                fs0[f].text))
             /\ \E i \in 1..Len(stdout) :
                   /\ stdout[i].msg = "Updated"
                   /\ IF parsed.command = "version"
                      THEN stdout[i].version = parsed.value
                      ELSE stdout[i].file = f
        ELSE fs[f] = fs0[f]

\* C9's case: a file whose text held several matches has been written
C9_Witness ==
    /\ pc = "exited" /\ parsed.command = "toolchain"
    /\ \E f \in Range(opened) :
          /\ Cardinality(MatchStarts(toolchain_version_regex, fs0[f].text)) >= 2
          /\ fs[f] # fs0[f]

\* C10 as the spec states it: in the toolchain command only the first occurrence of
\* the pattern in a file is replaced; a later occurrence keeps its text.
C10_AsStated ==
    \A f \in Range(opened) :
        parsed.command = "toolchain"
        => fs[f].text = FirstMatchReplaced(toolchain_version_regex, parsed.value, fs0[f].text)

\* C10, amended: in the toolchain command every occurrence of the pattern in a file
\* of the list, not the first alone, is replaced with the new value: where each
\* occurrence was, moved by what the text before it has grown, the new value stands.
C10_EveryOccurrence ==
    \A f \in Range(opened) :
        parsed.command = "toolchain"
        => EachReplacedIn(MatchEnds(toolchain_version_regex, fs0[f].text),
                          GrowthAt(MatchEnds(toolchain_version_regex, fs0[f].text),
                                   parsed.value, fs0[f].text),
                          parsed.value, fs0[f].text, fs[f].text)

\* C10's case: a file with two occurrences has been rewritten by the toolchain command
C10_Witness ==
    /\ parsed.command = "toolchain"
    /\ \E f \in Range(opened) :
          /\ Cardinality(MatchStarts(toolchain_version_regex, fs0[f].text)) = 2
          /\ fs[f] # fs0[f]

====
